---- MODULE Spec2Model ----
(***************************************************************************)
(* Model of the dumby server (server/server.go): the listener, the three   *)
(* goroutines of every connection (handleIncomingData, handleUpcomingData, *)
(* handleClose), the dispatch routine with the goroutines it spawns, the   *)
(* session map, the handler map and the RWMutex that guards both.          *)
(*                                                                         *)
(* Channels are unbuffered, so a send and its receive are one step.  The   *)
(* dispatch loop only receives and spawns, so a send on s.r or s.s always  *)
(* completes: it is modelled together with the goroutine dispatch spawns.  *)
(* Every exclusive section of the mutex (AddHandlers, initConnection,      *)
(* kill) runs without blocking between Lock and Unlock, so it is one step  *)
(* whose guard is that no read lock is held.  Read locks that are held     *)
(* across a blocking operation are kept in rlock.  A goroutine that stands  *)
(* before Lock while rlock is not empty may or may not have called Lock     *)
(* yet; the model lets later RLocks pass, as they do when it has not.       *)
(*                                                                         *)
(* The environment: a client sends any frame or closes its socket at any   *)
(* time, the random source returns any session or fails, a write fails     *)
(* whenever the transport breaks.  The handlers are those of the README.    *)
(*                                                                         *)
(* Four specifications share the variables:                                *)
(*   Spec       the server with NConn clients, the frames taken as parsed; *)
(*   SpecFan    the server with one client and up to MaxFanOut handlers;   *)
(*   SpecBuf    the server with one client, the reader taken byte by byte  *)
(*              (r.Read into buf, protocol.Parse of buf);                  *)
(*   SpecCodec  package protocol alone: New, Trame.Read and Parse applied  *)
(*              to trames and to bytes, the integers with their 64 bits.   *)
(***************************************************************************)
EXTENDS Integers, Sequences, FiniteSets, TLC

\* ------------------------------------------------------------------ bounds
NConn == 2
MaxFrames == 2
MaxSession == 1
MaxHandlers == 1
MaxLimit == 1
MaxFanOut == 2
MaxPayload == 2
MaxBody == 1

\* --------------------------------------------------------------- constants
ActionInit == 1
actionHello == 3

Conns == 1..NConn
Sessions == 0..MaxSession
ZeroSession == 0
Actions == {ActionInit, actionHello}
NoConn == 0

\* A trame: id is the connection and the rank of the client frame it is (or
\* answers); h is 0 for a frame read from a socket and the handler that made
\* it for a reply.
Trame(id, session, action, h) == [id |-> id, Session |-> session, Action |-> action, h |-> h]
NoTrame == Trame(<<0, 0>>, ZeroSession, 0, 0)

\* ------------------------------------------------------------ package protocol
HeaderSize == 48
SessionSize == 32

\* A byte is a digit to the base 256.  A uint64 is held as four digits to the
\* base 65536, the least significant first, so that every value of 64 bits
\* is within the integers of the model checker.
Base == 256
Limb == 65536

Zeros(n) == [i \in 1..n |-> 0]

\* copy(dst, src): the first min(len(dst), len(src)) bytes of dst are replaced
Copy(dst, src) == [i \in 1..Len(dst) |-> IF i <= Len(src) THEN src[i] ELSE dst[i]]

\* uint64(n), for an n below 2^31
U64(n) == <<n % Limb, (n \div Limb) % Limb, 0, 0>>

\* x is below 2^31, and ToNat(x) is then its value.
IsSmall(x) == x[3] = 0 /\ x[4] = 0 /\ x[2] < Limb \div 2
ToNat(x) == x[1] + Limb * x[2]

\* x + n in uint64: the carry out of the last digit is lost (n below 65536).
AddU64(x, n) ==
    LET s1 == x[1] + n
        s2 == x[2] + s1 \div Limb
        s3 == x[3] + s2 \div Limb
        s4 == x[4] + s3 \div Limb
    IN <<s1 % Limb, s2 % Limb, s3 % Limb, s4 % Limb>>

\* int(x) < 0: the conversion of a uint64 to int keeps the 64 bits.
IntNegative(x) == x[4] >= Limb \div 2

\* n < int(x), for an int n in 0..2^31-1
LessThanInt(n, x) == ~IntNegative(x) /\ (~IsSmall(x) \/ n < ToNat(x))

\* s[low : high] is within bounds: low <= high <= cap(s), high a uint64.
InBounds(low, high, cap) == IsSmall(high) /\ low <= ToNat(high) /\ ToNat(high) <= cap

\* The most significant byte first.
PutUint64_BigEndian(v) ==
    [i \in 1..8 |-> IF i % 2 = 1 THEN v[(10 - i) \div 2] \div Base ELSE v[(10 - i) \div 2] % Base]

\* binary.LittleEndian.PutUint64
PutUint64(v) ==
    [i \in 1..8 |-> IF i % 2 = 1 THEN v[(i + 1) \div 2] % Base ELSE v[i \div 2] \div Base]

\* The most significant byte first.
Uint64_BigEndian(b) == [k \in 1..4 |-> b[10 - 2 * k] + Base * b[9 - 2 * k]]

\* binary.LittleEndian.Uint64
Uint64(b) == [k \in 1..4 |-> b[2 * k - 1] + Base * b[2 * k]]

\* protocol.New
New(session, action, payload) ==
    [Session |-> session, Action |-> action, PayloadSize |-> U64(Len(payload)), Payload |-> payload]

ParseError == [kind |-> "error"]
Panic == [kind |-> "panic"]

\* protocol.Parse: an error, a run-time panic (slice bounds out of range), or
\* the trame.  The capacity of data plays no part: when the length test lets a
\* payload size through that the slice expression rejects, 48+payloadSize is
\* below 48 or above 2^63.
Parse(data) ==
    IF Len(data) < HeaderSize
       THEN ParseError
       ELSE LET action == Uint64(SubSeq(data, SessionSize + 1, SessionSize + 8))
                payloadSize == Uint64(SubSeq(data, SessionSize + 9, HeaderSize))
                high == AddU64(payloadSize, HeaderSize)
            IN IF LessThanInt(Len(data), high)
                  THEN ParseError
                  ELSE IF ~InBounds(HeaderSize, high, Len(data))
                          THEN Panic
                          ELSE [kind |-> "ok",
                                trame |-> [Session |-> SubSeq(data, 1, SessionSize),
                                           Action |-> action,
                                           PayloadSize |-> payloadSize,
                                           Payload |-> SubSeq(data, HeaderSize + 1, ToNat(high))]]

\* Trame.Read(buffer): the buffer once written, and the length returned.
TrameRead(trame, buffer) ==
    LET n == HeaderSize + Len(trame.Payload)
        high == AddU64(trame.PayloadSize, HeaderSize)
    IN IF ~InBounds(HeaderSize, high, n)
          THEN Panic
          ELSE LET serialBuffer ==
                       [i \in 1..n |->
                          IF i <= SessionSize THEN trame.Session[i]
                          ELSE IF i <= SessionSize + 8 THEN PutUint64(trame.Action)[i - SessionSize]
                          ELSE IF i <= HeaderSize THEN PutUint64(trame.PayloadSize)[i - SessionSize - 8]
                          ELSE IF i <= ToNat(high) THEN trame.Payload[i - HeaderSize]
                          ELSE 0]
               IN [kind |-> "ok", buffer |-> Copy(buffer, serialBuffer), n |-> n]

VARIABLES
    maxConnections, \* s.config.MaxConnections
    handlers,       \* s.handlers: action -> sequence of handlers
    connections,    \* s.connections: session -> send channel (the connection owning it)
    rlock,          \* holders of s.mutex.RLock across a blocking operation
    accepted,       \* number of sockets Listen has accepted
    lpc,            \* position of Listen inside handleDataTransfer
    session,        \* handleDataTransfer's variable session, set by onInit
    rpc,            \* position of handleIncomingData
    isInit,         \* handleIncomingData's isInit
    sessionID,      \* handleIncomingData's sessionID
    rtrame,         \* handleIncomingData's trame
    gen,            \* initConnection's sessionID
    err,            \* the error returned by onInit
    seen,           \* the actions of the frames read from the socket so far
    wpc,            \* position of handleUpcomingData
    wtrame,         \* handleUpcomingData's trame
    cpc,            \* position of handleClose
    csession,       \* handleClose's parameter session
    closes,         \* number of calls of conn.Close()
    sock,           \* the trames written to the socket
    werr,           \* conn.Write has failed: the TCP connection is broken for good
    nh,             \* goroutines noticeHandlers spawned by dispatch
    ndr,            \* goroutines noticeDataRoutine spawned by dispatch
    buf,            \* handleIncomingData's buf (empty until the reader has made it)
    payload,        \* the Payload of the trames parsed from buf, in the order read
    cstep,          \* protocol: what has been done with the trame or the bytes below
    cframe,         \* protocol: a trame made by New
    cwire,          \* protocol: the bytes written by Trame.Read, or given to Parse
    cres            \* protocol: what Parse has returned

srvVars == <<maxConnections, handlers, connections, rlock>>
lsnVars == <<accepted, lpc>>
rdVars == <<rpc, isInit, sessionID, rtrame, gen, err, seen, session>>
wrVars == <<wpc, wtrame, sock, werr>>
clVars == <<cpc, csession>>
rtVars == <<nh, ndr>>
bufVars == <<buf, payload>>
codecVars == <<cstep, cframe, cwire, cres>>
vars == <<srvVars, lsnVars, rdVars, wrVars, clVars, closes, rtVars, bufVars, codecVars>>

\* r.Size(), scaled: the length of the buffer of a reader, MaxBody bytes more
\* than a header.
BufLen == HeaderSize + MaxBody

\* The number of frames the server has read, over all the connections.
RECURSIVE NumRead(_)
NumRead(S) == IF S = {} THEN 0 ELSE LET c == CHOOSE x \in S : TRUE IN Len(seen[c]) + NumRead(S \ {c})

\* len(s.connections)
NumConnections == Cardinality({s \in Sessions : connections[s] # NoConn})

NumHandlers == Len(handlers[ActionInit]) + Len(handlers[actionHello])

Init ==
    /\ maxConnections \in 0..MaxLimit
    /\ handlers = [a \in Actions |-> <<>>]
    /\ connections = [s \in Sessions |-> NoConn]
    /\ rlock = {}
    /\ accepted = 0
    /\ lpc = "accept"
    /\ session = [c \in Conns |-> ZeroSession]
    /\ rpc = [c \in Conns |-> "off"]
    /\ isInit = [c \in Conns |-> FALSE]
    /\ sessionID = [c \in Conns |-> ZeroSession]
    /\ rtrame = [c \in Conns |-> NoTrame]
    /\ gen = [c \in Conns |-> ZeroSession]
    /\ err = [c \in Conns |-> "nil"]
    /\ seen = [c \in Conns |-> <<>>]
    /\ wpc = [c \in Conns |-> "off"]
    /\ wtrame = [c \in Conns |-> NoTrame]
    /\ cpc = [c \in Conns |-> "off"]
    /\ csession = [c \in Conns |-> ZeroSession]
    /\ closes = [c \in Conns |-> 0]
    /\ sock = [c \in Conns |-> <<>>]
    /\ werr = [c \in Conns |-> FALSE]
    /\ nh = {}
    /\ ndr = {}
    /\ buf = [c \in Conns |-> <<>>]
    /\ payload = [c \in Conns |-> <<>>]
    /\ cstep = "idle"
    /\ cframe = <<>>
    /\ cwire = <<>>
    /\ cres = <<>>

\* ------------------------------------------------------------- AddHandlers
\* The handlers are the closures of the README: one reply to trame.Session.
\* As in the README, the handlers are added before Listen accepts.
AddHandlers(a) ==
    /\ NumHandlers < MaxHandlers
    /\ accepted = 0
    /\ rlock = {}
    /\ handlers' = [handlers EXCEPT ![a] = Append(@, NumHandlers + 1)]
    /\ UNCHANGED <<maxConnections, connections, rlock>>
    /\ UNCHANGED <<lsnVars, rdVars, wrVars, clVars, closes, rtVars>>
    /\ UNCHANGED <<bufVars, codecVars>>

\* ------------------------------------------------ Listen, handleDataTransfer
\* The admission test of handleDataTransfer.
Admits(n, max) == n <= max

Accept(c) ==
    /\ lpc = "accept"
    /\ c = accepted + 1
    /\ accepted' = c
    /\ IF Admits(NumConnections, maxConnections)
          THEN /\ rpc' = [rpc EXCEPT ![c] = "select"]
               /\ wpc' = [wpc EXCEPT ![c] = "select"]
               /\ lpc' = "spawnClose"
               /\ UNCHANGED closes
          ELSE /\ closes' = [closes EXCEPT ![c] = @ + 1]
               /\ UNCHANGED <<rpc, wpc, lpc>>
    /\ UNCHANGED <<srvVars, isInit, sessionID, rtrame, gen, err, seen, session>>
    /\ UNCHANGED <<wtrame, sock, werr, clVars, rtVars>>
    /\ UNCHANGED <<bufVars, codecVars>>

\* go s.handleClose(session, conn, kill): session is evaluated here.
SpawnClose(c) ==
    /\ lpc = "spawnClose"
    /\ c = accepted
    /\ cpc' = [cpc EXCEPT ![c] = "wait"]
    /\ csession' = [csession EXCEPT ![c] = session[c]]
    /\ lpc' = "accept"
    /\ UNCHANGED <<srvVars, accepted, rdVars, wrVars, closes, rtVars>>
    /\ UNCHANGED <<bufVars, codecVars>>

\* ------------------------------------------------------ generateNewSession
\* int(math.Pow(2, 256)): the conversion of a float64 that int cannot hold is
\* implementation-dependent.  amd64 yields the least int64, arm64 the greatest.
IntOfPow2_256 == {"MinInt64", "MaxInt64"}

\* trials > int(math.Pow(2, 256)), for trials in 0..MaxInt64: true of every
\* trials when the bound is the least int64, false of every trials otherwise.
TrialsExceeded(cap) == cap = "MinInt64"

\* _, exist := s.connections[sessionID]
Exist(conns, s) == conns[s] # NoConn

GenerateNewSession(c) ==
    /\ rpc[c] = "generate"
    /\ \E ok \in BOOLEAN, v \in Sessions :
         IF ~ok
            THEN \* generateSessionID failed: return before RLock
                 /\ err' = [err EXCEPT ![c] = "rand"]
                 /\ rpc' = [rpc EXCEPT ![c] = "sendkill"]
                 /\ UNCHANGED <<gen, rlock>>
            ELSE IF ~Exist(connections, v)
                    THEN \* RLock, the loop is not entered, RUnlock
                         /\ gen' = [gen EXCEPT ![c] = v]
                         /\ rpc' = [rpc EXCEPT ![c] = "register"]
                         /\ UNCHANGED <<err, rlock>>
                    ELSE \* the loop is entered with the read lock held; exist
                         \* is never evaluated again
                         /\ rlock' = rlock \cup {<<"gen", c, 0>>}
                         /\ gen' = [gen EXCEPT ![c] = v]
                         /\ \E cap \in IntOfPow2_256 :
                              IF TrialsExceeded(cap)
                                 THEN /\ err' = [err EXCEPT ![c] = "allused"]
                                      /\ rpc' = [rpc EXCEPT ![c] = "sendkill"]
                                 ELSE /\ rpc' = [rpc EXCEPT ![c] = "spin"]
                                      /\ UNCHANGED err
    /\ UNCHANGED <<maxConnections, handlers, connections, lsnVars>>
    /\ UNCHANGED <<isInit, sessionID, rtrame, seen, session>>
    /\ UNCHANGED <<wrVars, clVars, closes, rtVars>>
    /\ UNCHANGED <<bufVars, codecVars>>

\* One more turn of the loop of generateNewSession: draw again, trials++.
Redraw(c) ==
    /\ rpc[c] = "spin"
    /\ \E ok \in BOOLEAN, v \in Sessions :
         IF ok
            THEN /\ gen' = [gen EXCEPT ![c] = v]
                 /\ UNCHANGED <<err, rpc>>
            ELSE /\ err' = [err EXCEPT ![c] = "rand"]
                 /\ rpc' = [rpc EXCEPT ![c] = "sendkill"]
                 /\ UNCHANGED gen
    /\ UNCHANGED <<srvVars, lsnVars, isInit, sessionID, rtrame, seen, session>>
    /\ UNCHANGED <<wrVars, clVars, closes, rtVars>>
    /\ UNCHANGED <<bufVars, codecVars>>

\* ---------------------------------------------------------- initConnection
\* s.connections[sessionID] = send
RegisterSession(conns, s, c) == [conns EXCEPT ![s] = c]

\* The echo left out: the reader goes straight to the send on s.r.
AfterRegister_NoEcho == "push"

\* Where the reader stands once the session is registered: at send <- trame.
AfterRegister == "echo"

\* Lock; s.connections[sessionID] = send; Unlock; trame.Session = sessionID
Register(c) ==
    /\ rpc[c] = "register"
    /\ rlock = {}
    /\ connections' = RegisterSession(connections, gen[c], c)
    /\ rtrame' = [rtrame EXCEPT ![c].Session = gen[c]]
    /\ rpc' = [rpc EXCEPT ![c] = AfterRegister]
    /\ UNCHANGED <<maxConnections, handlers, rlock, lsnVars>>
    /\ UNCHANGED <<isInit, sessionID, gen, err, seen, session>>
    /\ UNCHANGED <<wrVars, clVars, closes, rtVars>>
    /\ UNCHANGED <<bufVars, codecVars>>

\* The comparison of the sessions left out.
SessionMismatch_Never(init, sid, t) == FALSE

\* isInit && sessionID != trame.Session
SessionMismatch(init, sid, t) == init /\ sid # t.Session

\* send <- trame, received by the writer; onInit returns and sets session;
\* handleIncomingData sets sessionID and compares it with trame.Session.
Echo(c) ==
    /\ rpc[c] = "echo"
    /\ wpc[c] = "select"
    /\ wtrame' = [wtrame EXCEPT ![c] = rtrame[c]]
    /\ wpc' = [wpc EXCEPT ![c] = "write"]
    /\ session' = [session EXCEPT ![c] = gen[c]]
    /\ sessionID' = [sessionID EXCEPT ![c] = gen[c]]
    /\ rpc' = [rpc EXCEPT ![c] =
                 IF SessionMismatch(isInit[c], gen[c], rtrame[c]) THEN "kill" ELSE "push"]
    /\ UNCHANGED <<srvVars, lsnVars, isInit, rtrame, gen, err, seen>>
    /\ UNCHANGED <<sock, werr, clVars, closes, rtVars>>
    /\ UNCHANGED <<bufVars, codecVars>>

\* -------------------------------------------------------- handleIncomingData
\* The test on the first frames left out.
SkipUntilInit_Never(t, init) == FALSE

\* Skip until the client initializes the connection
SkipUntilInit(t, init) == t.Action # ActionInit /\ ~init

\* An Init frame is never skipped.
SkipAlreadyInit_Never(t, init) == FALSE

\* Skip because the connection is already initialized
SkipAlreadyInit(t, init) == t.Action = ActionInit /\ init

\* The frame that initializes the connection
QualifyingInit(t, init) == t.Action = ActionInit /\ ~init

\* The default case of the select: r.Read and protocol.Parse, then the tests
\* on the action up to the next blocking operation.  A read fails (EOF, error,
\* fewer than HeaderSize bytes, unparsable) whenever the client or the
\* transport makes it so, and always once the socket is closed.
Read(c) ==
    /\ rpc[c] = "select"
    /\ \/ /\ rpc' = [rpc EXCEPT ![c] = "sendkill"]
          /\ UNCHANGED <<isInit, rtrame, seen>>
       \/ /\ closes[c] = 0
          /\ NumRead(Conns) < MaxFrames
          /\ \E s \in Sessions, a \in Actions :
               LET t == Trame(<<c, Len(seen[c]) + 1>>, s, a, 0) IN
               /\ seen' = [seen EXCEPT ![c] = Append(@, a)]
               /\ rtrame' = [rtrame EXCEPT ![c] = t]
               /\ IF SkipUntilInit(t, isInit[c]) \/ SkipAlreadyInit(t, isInit[c])
                     THEN UNCHANGED <<rpc, isInit>>
                     ELSE IF QualifyingInit(t, isInit[c])
                             THEN /\ isInit' = [isInit EXCEPT ![c] = TRUE]
                                  /\ rpc' = [rpc EXCEPT ![c] = "generate"]
                             ELSE /\ UNCHANGED isInit
                                  /\ rpc' = [rpc EXCEPT ![c] =
                                       IF SessionMismatch(isInit[c], sessionID[c], t)
                                          THEN "kill" ELSE "push"]
    /\ UNCHANGED <<srvVars, lsnVars, sessionID, gen, err, session>>
    /\ UNCHANGED <<wrVars, clVars, closes, rtVars>>
    /\ UNCHANGED <<bufVars, codecVars>>

\* receive <- trame, and dispatch: case trame := <-s.r: go s.noticeHandlers(trame)
Push(c) ==
    /\ rpc[c] = "push"
    /\ nh' = nh \cup {rtrame[c]}
    /\ rpc' = [rpc EXCEPT ![c] = "select"]
    /\ UNCHANGED <<srvVars, lsnVars, isInit, sessionID, rtrame, gen, err, seen, session>>
    /\ UNCHANGED <<wrVars, clVars, closes, ndr>>
    /\ UNCHANGED <<bufVars, codecVars>>

\* -------------------------------------------------------------------- kill
\* if _, exist := s.connections[session]; exist { delete(s.connections, session) }
Kill(conns, s) == [conns EXCEPT ![s] = NoConn]

\* s.kill(sessionID, conn) of handleIncomingData, then return.  conn.Close()
\* follows Unlock at once and commutes with the steps of the other goroutines
\* that could come between, so the two are one step.
ReaderKill(c) ==
    /\ rpc[c] = "kill"
    /\ rlock = {}
    /\ connections' = Kill(connections, sessionID[c])
    /\ closes' = [closes EXCEPT ![c] = @ + 1]
    /\ rpc' = [rpc EXCEPT ![c] = "killed"]
    /\ UNCHANGED <<maxConnections, handlers, rlock, lsnVars>>
    /\ UNCHANGED <<isInit, sessionID, rtrame, gen, err, seen, session>>
    /\ UNCHANGED <<wrVars, clVars, rtVars>>
    /\ UNCHANGED <<bufVars, codecVars>>

\* ------------------------------------------------------------- handleClose
\* s.kill(session, conn) of handleClose, then return
CloserKill(c) ==
    /\ cpc[c] = "kill"
    /\ rlock = {}
    /\ connections' = Kill(connections, csession[c])
    /\ closes' = [closes EXCEPT ![c] = @ + 1]
    /\ cpc' = [cpc EXCEPT ![c] = "done"]
    /\ UNCHANGED <<maxConnections, handlers, rlock, lsnVars>>
    /\ UNCHANGED <<rdVars, wrVars, csession, rtVars>>
    /\ UNCHANGED <<bufVars, codecVars>>

\* -------------------------------------------------------- the kill channel
\* kill <- true is sent by the reader (which then returns) and by the writer
\* (which then loops); exactly one of the other goroutines receives it.
ReaderKillsWriter(c) ==
    /\ rpc[c] = "sendkill"
    /\ wpc[c] = "select"
    /\ rpc' = [rpc EXCEPT ![c] = "done"]
    /\ wpc' = [wpc EXCEPT ![c] = "done"]
    /\ UNCHANGED <<srvVars, lsnVars, isInit, sessionID, rtrame, gen, err, seen, session>>
    /\ UNCHANGED <<wtrame, sock, werr, clVars, closes, rtVars>>
    /\ UNCHANGED <<bufVars, codecVars>>

ReaderKillsCloser(c) ==
    /\ rpc[c] = "sendkill"
    /\ cpc[c] = "wait"
    /\ rpc' = [rpc EXCEPT ![c] = "done"]
    /\ cpc' = [cpc EXCEPT ![c] = "kill"]
    /\ UNCHANGED <<srvVars, lsnVars, isInit, sessionID, rtrame, gen, err, seen, session>>
    /\ UNCHANGED <<wrVars, csession, closes, rtVars>>
    /\ UNCHANGED <<bufVars, codecVars>>

WriterKillsReader(c) ==
    /\ wpc[c] = "sendkill"
    /\ rpc[c] = "select"
    /\ wpc' = [wpc EXCEPT ![c] = "select"]
    /\ rpc' = [rpc EXCEPT ![c] = "done"]
    /\ UNCHANGED <<srvVars, lsnVars, isInit, sessionID, rtrame, gen, err, seen, session>>
    /\ UNCHANGED <<wtrame, sock, werr, clVars, closes, rtVars>>
    /\ UNCHANGED <<bufVars, codecVars>>

WriterKillsCloser(c) ==
    /\ wpc[c] = "sendkill"
    /\ cpc[c] = "wait"
    /\ wpc' = [wpc EXCEPT ![c] = "select"]
    /\ cpc' = [cpc EXCEPT ![c] = "kill"]
    /\ UNCHANGED <<srvVars, lsnVars, rdVars, wtrame, sock, werr, csession, closes, rtVars>>
    /\ UNCHANGED <<bufVars, codecVars>>

\* -------------------------------------------------------- handleUpcomingData
\* trame.Read(buf); conn.Write(buf).  The write fails on a closed socket and
\* whenever the transport breaks; a broken TCP connection stays broken.
Write(c) ==
    /\ wpc[c] = "write"
    /\ \/ /\ closes[c] = 0
          /\ ~werr[c]
          /\ sock' = [sock EXCEPT ![c] = Append(@, wtrame[c])]
          /\ wpc' = [wpc EXCEPT ![c] = "select"]
          /\ UNCHANGED werr
       \/ /\ wpc' = [wpc EXCEPT ![c] = "sendkill"]
          /\ werr' = [werr EXCEPT ![c] = TRUE]
          /\ UNCHANGED sock
    /\ wtrame' = [wtrame EXCEPT ![c] = NoTrame]
    /\ UNCHANGED <<srvVars, lsnVars, rdVars, clVars, closes, rtVars>>
    /\ UNCHANGED <<bufVars, codecVars>>

\* ------------------------------------------------------------------ dispatch
\* A goroutine noticeDataRoutine: its trame and, once it has looked the session
\* up, the connection whose send channel it is blocked on.
Routine(t, to) == [trame |-> t, to |-> to]

\* The handler of the README: s <- protocol.New(trame.Session, actionHello, ...)
Reply(h, t) == Trame(t.id, t.Session, actionHello, h)

\* Only the first handler of the action is started.
Invoked_First(hs, t) == {<<hs[t.Action][i], t>> : i \in 1..(IF Len(hs[t.Action]) > 0 THEN 1 ELSE 0)}

\* noticeHandlers: one goroutine for every handler of the action.  A handler
\* runs without blocking up to its send on s.s, which dispatch receives:
\* case trame := <-s.s: go s.noticeDataRoutine(trame)
Invoked(hs, t) == {<<hs[t.Action][i], t>> : i \in 1..Len(hs[t.Action])}

NoticeHandlers(t) ==
    /\ t \in nh
    /\ nh' = nh \ {t}
    /\ ndr' = ndr \cup {Routine(Reply(k[1], k[2]), NoConn) : k \in Invoked(handlers, t)}
    /\ UNCHANGED <<srvVars, lsnVars, rdVars, wrVars, clVars, closes>>
    /\ UNCHANGED <<bufVars, codecVars>>

\* The channel of the zero Session, whatever the session of the trame.
Sink_OfZero(conns, s) == conns[ZeroSession]

\* send, exist := s.connections[trame.Session]
Sink(conns, s) == conns[s]

\* noticeDataRoutine: RLock and the lookup.  An absent session: RUnlock.
NoticeDataRoutine(t) ==
    /\ Routine(t, NoConn) \in ndr
    /\ IF Exist(connections, t.Session)
          THEN /\ ndr' = (ndr \ {Routine(t, NoConn)}) \cup {Routine(t, Sink(connections, t.Session))}
               /\ rlock' = rlock \cup {<<"ndr", t.id, t.h>>}
          ELSE /\ ndr' = ndr \ {Routine(t, NoConn)}
               /\ UNCHANGED rlock
    /\ UNCHANGED <<maxConnections, handlers, connections, lsnVars>>
    /\ UNCHANGED <<rdVars, wrVars, clVars, closes, nh>>
    /\ UNCHANGED <<bufVars, codecVars>>

\* noticeDataRoutine: send <- trame, received by the writer; RUnlock.
Forward(t, c) ==
    /\ Routine(t, c) \in ndr
    /\ wpc[c] = "select"
    /\ wtrame' = [wtrame EXCEPT ![c] = t]
    /\ wpc' = [wpc EXCEPT ![c] = "write"]
    /\ rlock' = rlock \ {<<"ndr", t.id, t.h>>}
    /\ ndr' = ndr \ {Routine(t, c)}
    /\ UNCHANGED <<maxConnections, handlers, connections, lsnVars>>
    /\ UNCHANGED <<rdVars, sock, werr, clVars, closes, nh>>
    /\ UNCHANGED <<bufVars, codecVars>>

\* ----------------------------------------------------------- specification
AllTrames ==
    {Trame(<<c, n>>, s, a, h) : c \in Conns, n \in 1..MaxFrames, s \in Sessions,
                                a \in Actions, h \in 0..MaxHandlers}

Next ==
    \/ \E a \in Actions : AddHandlers(a)
    \/ \E c \in Conns : Accept(c)
    \/ \E c \in Conns : SpawnClose(c)
    \/ \E c \in Conns : Read(c)
    \/ \E c \in Conns : GenerateNewSession(c)
    \/ \E c \in Conns : Redraw(c)
    \/ \E c \in Conns : Register(c)
    \/ \E c \in Conns : Echo(c)
    \/ \E c \in Conns : Push(c)
    \/ \E c \in Conns : ReaderKill(c)
    \/ \E c \in Conns : CloserKill(c)
    \/ \E c \in Conns : ReaderKillsWriter(c)
    \/ \E c \in Conns : ReaderKillsCloser(c)
    \/ \E c \in Conns : WriterKillsReader(c)
    \/ \E c \in Conns : WriterKillsCloser(c)
    \/ \E c \in Conns : Write(c)
    \/ \E t \in AllTrames : NoticeHandlers(t)
    \/ \E t \in AllTrames : NoticeDataRoutine(t)
    \/ \E t \in AllTrames, c \in Conns : Forward(t, c)

Spec == Init /\ [][Next]_vars

\* ------------------------------------------- several handlers, one client
\* newHandlers := append(actualHandlers, handlers...)
Appended(old, new) == old \o new

\* AddHandlers(action, handlers...) called with n handlers.
AddHandlersN(a, n) ==
    /\ NumHandlers + n <= MaxFanOut
    /\ accepted = 0
    /\ rlock = {}
    /\ handlers' = [handlers EXCEPT ![a] = Appended(@, [i \in 1..n |-> NumHandlers + i])]
    /\ UNCHANGED <<maxConnections, connections, rlock>>
    /\ UNCHANGED <<lsnVars, rdVars, wrVars, clVars, closes, rtVars>>
    /\ UNCHANGED <<bufVars, codecVars>>

\* The only client of this specification.  With one client the session map is
\* empty when generateNewSession draws, so its loop is never entered.
FanConns == {CHOOSE c \in Conns : \A d \in Conns : c <= d}

FanTrames ==
    {Trame(<<c, n>>, s, a, h) : c \in FanConns, n \in 1..MaxFrames, s \in Sessions,
                                a \in Actions, h \in 0..MaxFanOut}

NextFan ==
    \/ \E a \in Actions, n \in 1..MaxFanOut : AddHandlersN(a, n)
    \/ \E c \in FanConns : Accept(c)
    \/ \E c \in FanConns : SpawnClose(c)
    \/ \E c \in FanConns : Read(c)
    \/ \E c \in FanConns : GenerateNewSession(c)
    \/ \E c \in FanConns : Register(c)
    \/ \E c \in FanConns : Echo(c)
    \/ \E c \in FanConns : Push(c)
    \/ \E c \in FanConns : ReaderKill(c)
    \/ \E c \in FanConns : CloserKill(c)
    \/ \E c \in FanConns : ReaderKillsWriter(c)
    \/ \E c \in FanConns : ReaderKillsCloser(c)
    \/ \E c \in FanConns : WriterKillsReader(c)
    \/ \E c \in FanConns : WriterKillsCloser(c)
    \/ \E c \in FanConns : Write(c)
    \/ \E t \in FanTrames : NoticeHandlers(t)
    \/ \E t \in FanTrames : NoticeDataRoutine(t)
    \/ \E t \in FanTrames, c \in FanConns : Forward(t, c)

SpecFan == Init /\ [][NextFan]_vars

\* ------------------------------------------ package protocol, on its own
\* The trames and the bytes the functions of the package are applied to.
SessionBytes(s) == [i \in 1..SessionSize |-> (s * i) % Base]

WideAction == <<513, 1027, 1541, Limb - 1>>

CodecActions == {U64(ActionInit), U64(actionHello), WideAction}

PayloadBytes == {1, Base - 1}

Payloads == UNION {[1..n -> PayloadBytes] : n \in 0..MaxPayload}

\* Payload sizes a header can declare: the small ones, and the ones around
\* 2^31, 2^32, 2^63 and 2^64, where 48+payloadSize leaves int or wraps.
DeclaredSizes ==
    {U64(n) : n \in 0..(MaxPayload + 1)} \cup
    {<<0, Limb \div 2, 0, 0>>,
     <<0, 0, 1, 0>>,
     <<Limb - HeaderSize - 1, Limb - 1, Limb - 1, Limb \div 2 - 1>>,
     <<Limb - HeaderSize, Limb - 1, Limb - 1, Limb \div 2 - 1>>,
     <<Limb - 1, Limb - 1, Limb - 1, Limb \div 2 - 1>>,
     <<0, 0, 0, Limb \div 2>>,
     <<Limb - HeaderSize - 1, Limb - 1, Limb - 1, Limb - 1>>,
     <<Limb - HeaderSize, Limb - 1, Limb - 1, Limb - 1>>,
     <<Limb - 1, Limb - 1, Limb - 1, Limb - 1>>}

\* A header followed by bytes.
Wire(sess, action, size, bytes) == sess \o PutUint64(action) \o PutUint64(size) \o bytes

CodecInputs ==
    {Wire(SessionBytes(1), U64(actionHello), z, p) : z \in DeclaredSizes, p \in Payloads} \cup
    {SubSeq(Wire(SessionBytes(1), U64(actionHello), U64(0), <<>>), 1, k) : k \in 0..(HeaderSize - 1)}

serverVars == <<srvVars, lsnVars, rdVars, wrVars, clVars, closes, rtVars, bufVars>>

\* A caller makes a trame with New.
CodecNew(s, a, p) ==
    /\ cstep = "idle"
    /\ cframe' = New(SessionBytes(s), a, p)
    /\ cstep' = "trame"
    /\ UNCHANGED <<cwire, cres, serverVars>>

\* A caller holds bytes read from a socket.
CodecReceive(data) ==
    /\ cstep = "idle"
    /\ cwire' = data
    /\ cstep' = "bytes"
    /\ UNCHANGED <<cframe, cres, serverVars>>

\* buf := make([]byte, protocol.HeaderSize+trame.PayloadSize); trame.Read(buf)
Serialize ==
    /\ cstep = "trame"
    /\ cres' = TrameRead(cframe, Zeros(HeaderSize + ToNat(cframe.PayloadSize)))
    /\ IF cres'.kind = "ok"
          THEN cwire' = cres'.buffer /\ cstep' = "wire"
          ELSE cstep' = "panic" /\ UNCHANGED cwire
    /\ UNCHANGED <<cframe, serverVars>>

\* protocol.Parse, of the bytes Trame.Read has written or of the bytes received
CodecParse ==
    /\ cstep \in {"wire", "bytes"}
    /\ cres' = Parse(cwire)
    /\ cstep' = IF cstep = "wire" THEN "roundtrip" ELSE "decoded"
    /\ UNCHANGED <<cframe, cwire, serverVars>>

NextCodec ==
    \/ \E s \in Sessions, a \in CodecActions, p \in Payloads : CodecNew(s, a, p)
    \/ \E data \in CodecInputs : CodecReceive(data)
    \/ Serialize
    \/ CodecParse

SpecCodec == Init /\ [][NextCodec]_vars

\* --------------------------------------------- the reader, byte by byte
\* buf := make([]byte, r.Size()): made when the reader starts and first used
\* by its first r.Read, where the model makes it.
Allocated(b) == IF b = <<>> THEN Zeros(BufLen) ELSE b

\* What one r.Read can deliver: the header of a frame that declares a payload
\* of size bytes, and the first sent bytes of the payload (the rest has not
\* arrived yet, or never will).  The bytes of a payload are the rank of the
\* read, so that the bytes of two reads differ.
Delivered(s, a, size, sent, rank) ==
    Wire(SessionBytes(s), U64(a), U64(size), [i \in 1..sent |-> rank])

\* The session and the action of a trame (package protocol) as the server
\* part of the model holds them.
SessionOf(bytes) == CHOOSE s \in Sessions : SessionBytes(s) = bytes
ActionOf(u) == ToNat(u)

\* trame.Payload: a slice of buf, HeaderSize bytes from its start.  size is its
\* length, held the bytes it held when Parse made it, read the number of
\* bytes the r.Read before Parse delivered.
Slice(size, held, read) == [size |-> size, held |-> held, read |-> read]

\* The r.Read before Parse delivered the header and the whole payload.
Complete(c, n) == payload[c][n].read = HeaderSize + payload[c][n].size

\* The bytes the Payload of the frame of rank n of connection c holds now.
PayloadNow(c, n) == SubSeq(buf[c], HeaderSize + 1, HeaderSize + payload[c][n].size)

\* The default case of the select, with the bytes: r.Read(buf) writes the bytes
\* delivered at the start of buf and leaves the rest of buf as it was;
\* protocol.Parse(buf, trame) is given the whole of buf.  A read of fewer than
\* HeaderSize bytes ends the reader; the bytes it wrote are before the payload
\* of any trame and nothing reads them.
ReadBytes(c) ==
    /\ rpc[c] = "select"
    /\ \/ /\ rpc' = [rpc EXCEPT ![c] = "sendkill"]
          /\ UNCHANGED <<isInit, rtrame, seen, bufVars>>
       \/ /\ closes[c] = 0
          /\ NumRead(Conns) < MaxFrames
          /\ \E s \in Sessions, a \in Actions, size \in 0..(MaxBody + 1), sent \in 0..MaxBody :
               /\ sent <= size
               /\ LET rank == Len(seen[c]) + 1
                      data == Delivered(s, a, size, sent, rank)
                      b == Copy(Allocated(buf[c]), data)
                      res == Parse(b)
                  IN /\ buf' = [buf EXCEPT ![c] = b]
                     /\ IF res.kind # "ok"
                           THEN /\ rpc' = [rpc EXCEPT ![c] = "sendkill"]
                                /\ UNCHANGED <<isInit, rtrame, seen, payload>>
                           ELSE LET t == Trame(<<c, rank>>, SessionOf(res.trame.Session),
                                               ActionOf(res.trame.Action), 0)
                                IN /\ seen' = [seen EXCEPT ![c] = Append(@, t.Action)]
                                   /\ rtrame' = [rtrame EXCEPT ![c] = t]
                                   /\ payload' = [payload EXCEPT ![c] =
                                         Append(@, Slice(ToNat(res.trame.PayloadSize),
                                                         res.trame.Payload, Len(data)))]
                                   /\ IF SkipUntilInit(t, isInit[c]) \/ SkipAlreadyInit(t, isInit[c])
                                         THEN UNCHANGED <<rpc, isInit>>
                                         ELSE IF QualifyingInit(t, isInit[c])
                                                 THEN /\ isInit' = [isInit EXCEPT ![c] = TRUE]
                                                      /\ rpc' = [rpc EXCEPT ![c] = "generate"]
                                                 ELSE /\ UNCHANGED isInit
                                                      /\ rpc' = [rpc EXCEPT ![c] =
                                                           IF SessionMismatch(isInit[c], sessionID[c], t)
                                                              THEN "kill" ELSE "push"]
    /\ UNCHANGED <<srvVars, lsnVars, sessionID, gen, err, session>>
    /\ UNCHANGED <<wrVars, clVars, closes, rtVars, codecVars>>

NextBuf ==
    \/ \E a \in Actions : AddHandlers(a)
    \/ \E c \in FanConns : Accept(c)
    \/ \E c \in FanConns : SpawnClose(c)
    \/ \E c \in FanConns : ReadBytes(c)
    \/ \E c \in FanConns : GenerateNewSession(c)
    \/ \E c \in FanConns : Register(c)
    \/ \E c \in FanConns : Echo(c)
    \/ \E c \in FanConns : Push(c)
    \/ \E c \in FanConns : ReaderKill(c)
    \/ \E c \in FanConns : CloserKill(c)
    \/ \E c \in FanConns : ReaderKillsWriter(c)
    \/ \E c \in FanConns : ReaderKillsCloser(c)
    \/ \E c \in FanConns : WriterKillsReader(c)
    \/ \E c \in FanConns : WriterKillsCloser(c)
    \/ \E c \in FanConns : Write(c)
    \/ \E t \in FanTrames : NoticeHandlers(t)
    \/ \E t \in FanTrames : NoticeDataRoutine(t)
    \/ \E t \in FanTrames, c \in FanConns : Forward(t, c)

SpecBuf == Init /\ [][NextBuf]_vars

\* ------------------------------------------------------------ vocabulary
\* The reader has returned.
ReaderReturned(c) == rpc[c] \in {"done", "killed"}

\* The connection has an entry in the session map.
Registered(c) == \E s \in Sessions : connections[s] = c

\* The frame a Read step of connection c has just read.
ReadsFrame(c) == Len(seen'[c]) = Len(seen[c]) + 1

\* The echo of the handshake of connection c, and a reply to a frame of c.
IsEcho(c, t) == t.h = 0 /\ t.id[1] = c
IsReply(t) == t.h # 0
IsOwnReply(c, t) == t.h # 0 /\ t.id[1] = c

\* The connection has sent no Init frame so far.
NoInitSeen(c) == \A i \in 1..Len(seen[c]) : seen[c][i] # ActionInit

\* The number of Init frames the connection has sent so far.
InitsSeen(c) == Cardinality({i \in 1..Len(seen[c]) : seen[c][i] = ActionInit})

\* The frame of rank n is the first Init frame of the connection.
IsFirstInit(c, n) ==
    /\ n \in 1..Len(seen[c])
    /\ seen[c][n] = ActionInit
    /\ \A j \in 1..(n - 1) : seen[c][j] # ActionInit

\* The connection is live and holds the session gen[c] it has registered.
HoldsSession(c) ==
    /\ isInit[c]
    /\ rpc[c] \in {"echo", "push", "select"}
    /\ wpc[c] \in {"select", "write"}
    /\ closes[c] = 0

\* ---------------------------------------------------------------- claims
\* C1: once a connection that completed its handshake has terminated, its
\* session is absent from the session map.  Finite form: when the three
\* goroutines of a connection have returned, nothing of the connection is left
\* to remove its entry, so the entry must be gone.
C1_SessionRemovedOnTermination ==
    \A c \in Conns :
        (ReaderReturned(c) /\ wpc[c] = "done" /\ cpc[c] = "done") => ~Registered(c)

\* C2: on a terminal signal the socket is closed exactly once: never twice,
\* and once the reader and the writer have both returned (nobody is left to
\* raise the kill signal) while handleClose waits or has returned, it has
\* been closed.
C2_ClosedExactlyOnce ==
    \A c \in Conns :
        /\ closes[c] <= 1
        /\ (ReaderReturned(c) /\ wpc[c] = "done" /\ cpc[c] \in {"wait", "done"}) => closes[c] = 1

\* C3: after a kill signal, the reader and the writer both observe it and
\* exit; none stays blocked forever.  Finite form: no goroutine is blocked
\* sending on the kill channel when every goroutine that could receive from
\* it has returned or is blocked sending on it too.
C3_NoTaskBlockedForever ==
    \A c \in Conns :
        /\ ~(rpc[c] = "sendkill" /\ wpc[c] \in {"done", "sendkill"} /\ cpc[c] = "done")
        /\ ~(wpc[c] = "sendkill" /\ (ReaderReturned(c) \/ rpc[c] = "sendkill") /\ cpc[c] = "done")

\* C4: the termination of a connection a never prevents another connection b
\* from registering its session: the registry lock is never held forever.
\* Finite form: b never waits for the exclusive lock while a routing goroutine
\* holds the read lock blocked on the sink of a, whose writer has returned.
C4_TerminationDoesNotBlockOthers ==
    \A a, b \in Conns :
        (a # b /\ rpc[b] = "register") =>
            ~(\E k \in ndr : k.to = a /\ wpc[a] = "done")

\* C5 as stated: once Active with session S, reading a frame whose session is
\* not S makes the reader tear the connection down.
C5_AnyMismatchTearsDown ==
    [][\A c \in Conns :
          (ReadsFrame(c) /\ isInit[c] /\ rtrame'[c].Session # sessionID[c])
              => rpc'[c] = "kill"]_vars

\* C5 amended: once Active with session S, reading a frame whose action is not
\* Init and whose session is not S makes the reader call kill and nothing else;
\* no such frame is ever sent on s.r; once kill has run, the connection has no
\* entry in the session map and its socket is closed.
C5_MismatchTearsDown ==
    /\ [][\A c \in Conns :
            (ReadsFrame(c) /\ isInit[c] /\ rtrame'[c].Action # ActionInit
                /\ rtrame'[c].Session # sessionID[c])
                => rpc'[c] = "kill"]_vars
    /\ [][\A t \in nh' \ nh :
            ~(t.Action # ActionInit /\ t.Session # sessionID[t.id[1]])]_vars
    /\ [](\A c \in Conns :
            /\ rpc[c] = "kill" => \A t \in nh : t.id # rtrame[c].id
            /\ rpc[c] = "killed" => (closes[c] >= 1 /\ ~Registered(c)
                                      /\ \A t \in nh : t.id # rtrame[c].id))

C5_Witness ==
    \E c \in Conns :
        /\ rpc[c] = "killed"
        /\ rtrame[c].Action # ActionInit
        /\ rtrame[c].Session # sessionID[c]

\* C6: a socket accepted while the number of registered sessions equals
\* MaxConnections is closed at once, and no goroutine is spawned for it.
C6_RejectedAtLimit ==
    [][\A c \in Conns :
          (accepted' = c /\ accepted = c - 1 /\ NumConnections = maxConnections)
              => (closes'[c] = 1 /\ rpc'[c] = "off" /\ wpc'[c] = "off")]_vars

\* C7 as stated: a connection whose first frame is not an Init frame never
\* becomes Active and never appears in the session map.
C7_NonInitFirstNeverActive ==
    \A c \in Conns :
        (Len(seen[c]) >= 1 /\ seen[c][1] # ActionInit) => (~isInit[c] /\ ~Registered(c))

\* C7 amended: as long as a connection has sent no Init frame, it is not
\* Active, it has no entry in the session map and none of its frames is sent
\* on s.r: a frame that is not Init is dropped and the reader goes on reading.
C7_NoInitNotActive ==
    \A c \in Conns :
        NoInitSeen(c) =>
            /\ ~isInit[c]
            /\ ~Registered(c)
            /\ rpc[c] \in {"off", "select", "sendkill", "done"}
            /\ \A t \in nh : t.id[1] # c

C7_Witness ==
    \E c \in Conns : Len(seen[c]) >= 1 /\ NoInitSeen(c) /\ rpc[c] = "select"

\* C8: no two live connections hold the same session.
C8_SessionsUnique ==
    \A c1, c2 \in Conns :
        (c1 # c2 /\ HoldsSession(c1) /\ HoldsSession(c2)) => gen[c1] # gen[c2]

\* C9: with a working random source, generation neither returns an error nor
\* loops forever when the first value drawn is already registered.
C9_GenerationSucceeds ==
    \A c \in Conns : err[c] # "allused" /\ rpc[c] # "spin"

\* C10 as stated: the echo of the handshake is written to the socket before
\* any reply of a handler for that session.
C10_EchoBeforeAnyReply ==
    \A c \in Conns : \A i \in 1..Len(sock[c]) :
        IsReply(sock[c][i]) => \E j \in 1..(i - 1) : IsEcho(c, sock[c][j])

\* C10 amended: the stamped Init frame is handed to the writer of the
\* connection by the very step that takes the reader to the send on s.r, and
\* the echo is written to the socket before any reply a handler makes to a
\* frame of that connection.
C10_EchoBeforeOwnReply ==
    /\ [][\A c \in Conns :
            (rpc'[c] = "push" /\ rpc[c] # "push" /\ rtrame'[c].Action = ActionInit)
                => (wpc'[c] = "write" /\ wtrame'[c] = rtrame'[c]
                     /\ wtrame'[c].Session = gen[c])]_vars
    /\ [](\A c \in Conns : \A i \in 1..Len(sock[c]) :
            IsOwnReply(c, sock[c][i]) => \E j \in 1..(i - 1) : IsEcho(c, sock[c][j]))

C10_Witness ==
    \E c \in Conns : \E i, j \in 1..Len(sock[c]) :
        j < i /\ IsEcho(c, sock[c][j]) /\ IsOwnReply(c, sock[c][i])

\* C11: every handler registered for the action of a frame, by one call of
\* AddHandlers or appended by later calls, is started exactly once with that
\* frame; no handler of another action is started; with no handler the frame
\* is dropped.  A registration appends: it keeps the handlers already there,
\* in their order, and adds handlers that are registered nowhere else.  A
\* handler that is started makes one reply, so the goroutines spawned for a
\* frame are as many as the handlers of its action, one for each of them.
C11_FanOut ==
    /\ [][\A a \in Actions :
            handlers'[a] # handlers[a] =>
                /\ Len(handlers'[a]) > Len(handlers[a])
                /\ SubSeq(handlers'[a], 1, Len(handlers[a])) = handlers[a]
                /\ \A i \in (Len(handlers[a]) + 1)..Len(handlers'[a]) :
                      \A b \in Actions : \A j \in 1..Len(handlers'[b]) :
                          (b # a \/ j # i) => handlers'[b][j] # handlers'[a][i]]_vars
    /\ [][\A t \in nh \ nh' :
            LET hs == handlers[t.Action]
                started == ndr' \ ndr
            IN /\ Cardinality(started) = Len(hs)
               /\ \A i \in 1..Len(hs) : Routine(Reply(hs[i], t), NoConn) \in started
               /\ \A k \in started : \E i \in 1..Len(hs) : k.trame.h = hs[i]
               /\ Len(hs) = 0 => ndr' = ndr]_vars

C11_Witness ==
    \E a \in Actions : \E k1, k2 \in ndr :
        /\ Len(handlers[a]) >= 2
        /\ k1.trame.id = k2.trame.id
        /\ k1.trame.h = handlers[a][1]
        /\ k2.trame.h = handlers[a][2]

\* C12: an outbound frame for session S is handed only to the writer of the
\* connection registered under S when the session was looked up, and at most
\* once; when S is not registered the frame is dropped: no writer gets it and
\* nothing else changes.  The read lock is held from the lookup to the send,
\* so the connection is still the one registered under S when it gets the frame.
C12_RoutedToRegisteredSink ==
    /\ [](\A k \in ndr : k.to # NoConn => connections[k.trame.Session] = k.to)
    /\ [][\A k \in ndr \ ndr' :
            k.to = NoConn =>
                IF connections[k.trame.Session] = NoConn
                   THEN /\ \A j \in ndr' : j.trame # k.trame
                        /\ UNCHANGED <<wrVars, rdVars, clVars, closes, connections, rlock>>
                   ELSE /\ Routine(k.trame, connections[k.trame.Session]) \in ndr'
                        /\ UNCHANGED <<wrVars, connections>>]_vars
    /\ [][\A c \in Conns :
            (wtrame'[c] # wtrame[c] /\ IsReply(wtrame'[c])) =>
                /\ Routine(wtrame'[c], c) \in ndr
                /\ connections[wtrame'[c].Session] = c
                /\ \A j \in ndr' : j.trame # wtrame'[c]
                /\ \A d \in Conns \ {c} : wtrame'[d] = wtrame[d]]_vars
    /\ [](\A c, d \in Conns : \A i \in 1..Len(sock[c]) : \A j \in 1..Len(sock[d]) :
            (IsReply(sock[c][i]) /\ sock[c][i] = sock[d][j]) => (c = d /\ i = j))

C12_Witness ==
    \E c, d \in Conns :
        /\ c # d
        /\ Registered(c)
        /\ Registered(d)
        /\ \E i \in 1..Len(sock[c]) : IsOwnReply(c, sock[c][i])

\* len(data) is below 48, or below 48 plus the payload size the header
\* declares, the sum taken in the integers.
Truncated(data) ==
    \/ Len(data) < HeaderSize
    \/ LET declared == Uint64(SubSeq(data, SessionSize + 9, HeaderSize))
       IN ~IsSmall(declared) \/ Len(data) < HeaderSize + ToNat(declared)

\* C13: Parse returns an error, and does not panic, for every input shorter
\* than 48 bytes and for every input shorter than 48 plus the payload size it
\* declares, whatever uint64 the declared size is.
C13_ShortInputIsAnError ==
    (cstep = "decoded" /\ Truncated(cwire)) => cres = ParseError

\* C14: Parse gives back the trame Trame.Read has written, for every trame
\* whose PayloadSize is the length of its Payload.
C14_RoundTrip ==
    cstep = "roundtrip" => (cres.kind = "ok" /\ cres.trame = cframe)

C14_Witness ==
    /\ cstep = "roundtrip"
    /\ Len(cframe.Payload) = MaxPayload
    /\ cframe.Action = WideAction
    /\ cres.trame.Payload = cframe.Payload

\* C15: Trame.Read writes exactly 48+len(Payload) bytes: the session in bytes
\* 0-31, the action in bytes 32-39 and the payload size in bytes 40-47, both
\* with the least significant byte first, and the payload from byte 48 on.
C15_WireLayout ==
    cstep = "wire" =>
        /\ cres.n = HeaderSize + Len(cframe.Payload)
        /\ Len(cwire) = cres.n
        /\ \A i \in 1..Len(cwire) : cwire[i] \in 0..(Base - 1)
        /\ \A i \in 1..SessionSize : cwire[i] = cframe.Session[i]
        /\ \A k \in 1..4 :
             /\ cwire[SessionSize + 2 * k - 1] + Base * cwire[SessionSize + 2 * k] = cframe.Action[k]
             /\ cwire[SessionSize + 8 + 2 * k - 1] + Base * cwire[SessionSize + 8 + 2 * k]
                    = U64(Len(cframe.Payload))[k]
        /\ \A i \in 1..Len(cframe.Payload) : cwire[HeaderSize + i] = cframe.Payload[i]

C15_Witness ==
    /\ cstep = "wire"
    /\ Len(cframe.Payload) = MaxPayload
    /\ cframe.Action = WideAction
    /\ Len(cwire) = HeaderSize + MaxPayload

\* C16: a frame the reader of a connection sends on s.r carries the session
\* registered for that connection (the one initConnection drew and stored,
\* which handleIncomingData keeps in sessionID), and is the frame the reader
\* has just read; no frame of a connection is sent on s.r while the connection
\* awaits its handshake.
C16_PushedCarriesOwnSession ==
    /\ [][\A t \in nh' \ nh :
            LET c == t.id[1]
            IN /\ isInit[c]
               /\ t = rtrame[c]
               /\ t.Session = sessionID[c]
               /\ t.Session = gen[c]]_vars
    /\ [](\A c \in Conns : ~isInit[c] => \A t \in nh : t.id[1] # c)

C16_Witness ==
    \E c \in Conns : \E t \in nh :
        /\ t.id = <<c, 2>>
        /\ t.Action # ActionInit
        /\ t.Session = sessionID[c]
        /\ t.Session # ZeroSession

\* C17: a connection gets at most one session.  An Init frame read while the
\* connection is Active is dropped: the reader goes on reading, nothing is
\* registered, no session changes, nothing is sent on s.r or to the writer.
\* A session is drawn, registered or stored for a connection only while the
\* Init frame it has sent is its first one, and the only Init frame of a
\* connection that is sent on s.r is that first one.
C17_OneSessionPerConnection ==
    /\ [][\A c \in Conns :
            (ReadsFrame(c) /\ isInit[c] /\ rtrame'[c].Action = ActionInit) =>
                /\ rpc'[c] = "select"
                /\ UNCHANGED <<connections, sessionID, gen, session, isInit, nh, ndr, wrVars>>]_vars
    /\ [][\A c \in Conns :
            (\/ gen'[c] # gen[c]
             \/ sessionID'[c] # sessionID[c]
             \/ \E s \in Sessions : connections'[s] = c /\ connections[s] # c)
                => InitsSeen(c) = 1]_vars
    /\ [][\A t \in nh' \ nh :
            t.Action = ActionInit => IsFirstInit(t.id[1], t.id[2])]_vars

C17_Witness ==
    \E c \in Conns :
        /\ isInit[c]
        /\ InitsSeen(c) = 2
        /\ rpc[c] = "select"
        /\ Registered(c)
        /\ sessionID[c] = gen[c]

\* C18: when a read delivers at least 48 bytes but fewer than 48 plus the
\* payload size the header declares, the reader takes it for a decode failure:
\* it goes on to end the connection, and no frame made from that read is sent
\* on s.r (in particular none whose payload holds bytes an earlier read left
\* in the buffer).
C18_TruncatedReadEndsConnection ==
    \A c \in Conns : \A n \in 1..Len(payload[c]) :
        payload[c][n].read < HeaderSize + payload[c][n].size =>
            /\ rpc[c] \in {"sendkill", "done"}
            /\ \A t \in nh : t.id # <<c, n>>

\* C19: the payload of a frame that was received whole and handed to the
\* handlers (sent on s.r and not yet taken by a handler), or handed to the
\* writer as the echo of the handshake, stays what it was when the frame was
\* parsed: a later read on the connection does not change it.
C19_PayloadUnchanged ==
    /\ \A t \in nh :
         Complete(t.id[1], t.id[2]) =>
             PayloadNow(t.id[1], t.id[2]) = payload[t.id[1]][t.id[2]].held
    /\ \A c \in Conns :
         (wtrame[c] # NoTrame /\ IsEcho(c, wtrame[c]) /\ Complete(c, wtrame[c].id[2])) =>
             PayloadNow(c, wtrame[c].id[2]) = payload[c][wtrame[c].id[2]].held

\* C20: every acquisition of the mutex is matched by a release on every path.
\* The exclusive sections are single steps; a read lock that is held across
\* steps belongs to a goroutine that is still inside its section: a
\* noticeDataRoutine blocked on its send, or a generateNewSession that has not
\* returned.
C20_LockReleasedOnEveryPath ==
    \A k \in rlock :
        \/ k[1] = "ndr" /\ \E r \in ndr : r.to # NoConn /\ r.trame.id = k[2] /\ r.trame.h = k[3]
        \/ k[1] = "gen" /\ rpc[k[2]] = "spin"

====
